---- MODULE Spec2Model ----
(***************************************************************************)
(* The upcall layer of the task runtime (src/rt/rust_upcall.cpp).          *)
(*                                                                         *)
(* Every task runs generated code on its guest (Rust) stack and calls the  *)
(* upcall entry points of this file.  An entry point builds an argument    *)
(* record, has the task switch to the native (C) stack, runs the handler    *)
(* there and returns the record's return slot.  The task, its local heap    *)
(* (task->boxed), the kernel allocator (task->kernel) and the stack         *)
(* segments (next_stack / prev_stack) live in other files of the runtime;   *)
(* they are modelled from the design document and marked so.                *)
(***************************************************************************)
EXTENDS Integers, Sequences, FiniteSets, TLC

(* ------------------------------ bounds -------------------------------- *)

\* Blocks the process-wide allocator can hand out before it is exhausted.
MaxAddr == 2
\* Nesting depth of the boundary shims (call_shim_on_c_stack / _on_rust_stack).
MaxDepth == 2
\* Segments a task's guest stack may chain.
MaxSegs == 2
\* Largest footprint, in bytes, one allocator block can hold.
BlockBytes == 48

Tasks == {"t1", "t2"}
Addrs == 1 .. MaxAddr

(* --------------------------- program constants ------------------------ *)

\* The null pointer: header->prev = 0, header->next = 0, retval = 0.
NULL == 0
\* header->ref_count = -1: "This is not ref counted".
Untracked == -1
\* sizeof(rust_opaque_box): ref_count, td, prev, next, one machine word each.
BoxHeaderBytes == 32

(* ------------------------------ inputs -------------------------------- *)

\* Type descriptors; the upcalls read only td->align.
TypeDescs == {[id |-> "td8", align |-> 8], [id |-> "td16", align |-> 16]}
\* Requested body sizes.  The larger one does not fit an allocator block.
Sizes == {8, 24}
\* (expr, file, line) triples passed to upcall_fail.
FailInputs == {<<"x > 0", "file.ext", 42>>, <<"idx < len", "vec.rs", 7>>}
\* (msg, file, line) triples passed to upcall_trace.
TraceInputs == {<<"here", "file.ext", 3>>}
\* (version, actions, exception_class, ue_header, context) of the personality.
PersonalityInputs == {<<1, 1, 7, 1, 1>>, <<1, 2, 7, 1, 1>>}
\* (stk_sz, args_sz) pairs passed to upcall_new_stack.
StackInputs == {<<1, 1>>, <<2, 1>>}

(* ------------------------------- state -------------------------------- *)

VARIABLES
    aborted,      \* the process has aborted (assert(false) / abort())
    mode,         \* per task: "normal", "unwinding" (a failure propagates), "dead"
    pc,           \* per task: "run", "handler", "untracked", "ret", "returned"
    stk,          \* per task: the stack it executes on, "rust" or "c"
    frames,       \* per task: the boundary shims active, innermost last
    call,         \* per task: the upcall in progress (handler, record, saved stack)
    done,         \* per task: the upcall that has just returned to its caller
    failure,      \* per task: what task->fail recorded
    heap,         \* the allocator's blocks: box headers by address
    live_allocs,  \* per task: head of task->boxed's live-allocation list
    origins,      \* per task: the boxes the debug tracker holds
    stk_chain,    \* per task: the guest stack's segments, oldest first
    stk_cur,      \* per task: index of the current segment
    stk_limit,    \* per task: the segment whose limit TLS holds (0: stale)
    pair,         \* per task: the last task-local allocate, until the next upcall
    marks         \* per task: segment and frame base saved at each new_stack

vars == <<aborted, mode, pc, stk, frames, call, done, failure, heap, live_allocs,
          origins, stk_chain, stk_cur, stk_limit, pair, marks>>

NoCall == [fn |-> "none"]
NoDone == [fn |-> "none"]
NoFailure == [cause |-> "none"]
NoPair == [state |-> "none"]
FreeBlock == [alloc |-> "free", ref_count |-> 0, td |-> NULL, prev |-> NULL, next |-> NULL]

(* -------------------------- argument records --------------------------- *)

\* The fields of each record type, in the order of the struct.
s_fail_args == <<"task", "expr", "file", "line">>

s_trace_args == <<"task", "msg", "file", "line">>

s_exchange_malloc_args == <<"task", "retval", "td", "size">>

s_exchange_free_args == <<"task", "ptr">>

s_malloc_args == <<"task", "retval", "td", "size">>

s_free_args == <<"task", "ptr">>

s_rust_personality_args ==
    <<"retval", "version", "actions", "exception_class", "ue_header", "context">>

\* The record type each handler takes.
RecordType(fn_ptr) ==
    CASE fn_ptr = "upcall_s_fail" -> s_fail_args
      [] fn_ptr = "upcall_s_trace" -> s_trace_args
      [] fn_ptr = "upcall_s_exchange_malloc" -> s_exchange_malloc_args
      [] fn_ptr = "upcall_s_exchange_free" -> s_exchange_free_args
      [] fn_ptr = "upcall_s_malloc" -> s_malloc_args
      [] fn_ptr = "upcall_s_free" -> s_free_args
      [] fn_ptr = "upcall_s_rust_personality" -> s_rust_personality_args

(* ------------------- collaborators: heaps and allocator --------------- *)

\* align_to and get_box_size of the runtime's utilities: the footprint of a box
\* is the header, padded to the body's alignment, plus the body.
align_to(size, align) == ((size + align - 1) \div align) * align

get_box_size(body_size, body_align) == align_to(BoxHeaderBytes, body_align) + body_size

FreeAddrs == {a \in Addrs : heap[a].alloc = "free"}

\* Whether the backing allocator can satisfy a request of total_size bytes.
CanAllocate(total_size) == FreeAddrs # {} /\ total_size <= BlockBytes

\* The boxes reached from a live-allocation list's head through the next links.
RECURSIVE Walk(_, _, _)
Walk(h, a, n) ==
    IF a = NULL \/ n = 0 THEN <<>> ELSE <<a>> \o Walk(h, h[a].next, n - 1)

LiveList(t) == Walk(heap, live_allocs[t], MaxAddr)

LiveSet(t) == {LiveList(t)[i] : i \in 1 .. Len(LiveList(t))}

\* task->kernel->calloc: a zeroed block from the process-wide allocator.
kernel_calloc(h, a) == [h EXCEPT ![a] = [FreeBlock EXCEPT !.alloc = "kernel"]]

\* task->kernel->free.
kernel_free(h, a) == [h EXCEPT ![a] = FreeBlock]

\* task->boxed.calloc: a zeroed box with its header installed, linked at the
\* head of the task's live-allocation list.
boxed_calloc(h, head, a, td) ==
    LET h1 == [h EXCEPT ![a] = [alloc |-> "boxed", ref_count |-> 1, td |-> td,
                                prev |-> NULL, next |-> head]]
    IN  IF head = NULL THEN h1 ELSE [h1 EXCEPT ![head].prev = a]

\* task->boxed.free: unlinks the box from the list and releases its block.
boxed_free(h, box) ==
    LET p == h[box].prev
        n == h[box].next
        h1 == IF p = NULL THEN h ELSE [h EXCEPT ![p].next = n]
        h2 == IF n = NULL THEN h1 ELSE [h1 EXCEPT ![n].prev = p]
    IN  [h2 EXCEPT ![box] = FreeBlock]

boxed_free_head(h, head, box) == IF head = box THEN h[box].next ELSE head

(* ---------------------- collaborators: the task ----------------------- *)

\* What the caller of an upcall can see of its task when it makes the call.
Site(t) ==
    [stk |-> stk[t], frames |-> frames[t], cur |-> stk_cur[t],
     chain |-> stk_chain[t], live |-> LiveList(t), mode |-> mode[t]]

\* The process runs and thread t executes code of its task (no upcall in progress).
Running(t) == ~aborted /\ pc[t] = "run" /\ mode[t] # "dead"

\* rust_task::call_on_c_stack, first half: when the task is on its guest stack it
\* switches to the native stack, and when it is on the native stack already it
\* calls directly.  Then fn_ptr(args) runs.
call_on_c_stack(task, args, fn_ptr) ==
    /\ call' = [call EXCEPT ![task] =
                   [fn |-> fn_ptr, args |-> args, sp |-> stk[task],
                    switched |-> (stk[task] = "rust"), site |-> Site(task)]]
    /\ stk' = [stk EXCEPT ![task] = "c"]
    /\ pc' = [pc EXCEPT ![task] = "handler"]
\* A variant of call_on_c_stack_return that leaves the task on the native stack.
call_on_c_stack_stay(task) == stk[task]

\* rust_task::call_on_c_stack, second half: the stack the task is on once
\* fn_ptr(args) has returned.
call_on_c_stack_return(task) ==
    IF call[task].switched THEN call[task].sp ELSE stk[task]

\* A failure leaves the handler of thread t: the upcall in progress is abandoned,
\* the unwinder takes the task back to the stack of the call site, and TLS holds
\* a stale stack limit until a landing pad resets it.
Propagate(t) ==
    /\ mode' = [mode EXCEPT ![t] = "unwinding"]
    /\ pc' = [pc EXCEPT ![t] = "run"]
    /\ stk' = [stk EXCEPT ![t] = call[t].sp]
    /\ call' = [call EXCEPT ![t] = NoCall]
    /\ stk_limit' = [stk_limit EXCEPT ![t] = 0]
    /\ pair' = [pair EXCEPT ![t] = NoPair]

\* rust_task::fail(expr, file, line): records the failure on the task and raises it.
task_fail(t, task, expr, file, line) ==
    /\ failure' = [failure EXCEPT ![task] =
                      [cause |-> "fail", expr |-> expr, file |-> file, line |-> line]]
    /\ Propagate(t)

\* Allocator exhaustion: not recoverable, it escalates to a failure of the task.
exhausted(t, task) ==
    /\ failure' = [failure EXCEPT ![task] = [cause |-> "exhausted"]]
    /\ Propagate(t)

(* -------------------------- the stack switch -------------------------- *)

\* The last task-local allocate of a task is remembered until its next upcall,
\* and through that upcall when it is the free of the box just allocated.
EnterPair(t, fn_ptr, args) ==
    IF /\ fn_ptr = "upcall_s_free"
       /\ pair[t].state = "allocated"
       /\ args.ptr = pair[t].p
    THEN [pair EXCEPT ![t].state = "freeing"]
    ELSE [pair EXCEPT ![t] = NoPair]

\* What an entry point leaves alone while it calls its handler.
EntryFrame ==
    UNCHANGED <<aborted, mode, frames, done, failure, heap, live_allocs, origins,
                stk_chain, stk_cur, stk_limit, marks>>
\* A variant of call_upcall_on_c_stack that calls fn_ptr(args) where it stands,
\* without asking the task to switch.
call_upcall_direct(task, args, fn_ptr) ==
    /\ call' = [call EXCEPT ![task] =
                   [fn |-> fn_ptr, args |-> args, sp |-> stk[task],
                    switched |-> FALSE, site |-> Site(task)]]
    /\ pc' = [pc EXCEPT ![task] = "handler"]
    /\ pair' = EnterPair(task, fn_ptr, args)
    /\ UNCHANGED stk
    /\ EntryFrame

\* call_upcall_on_c_stack: task->call_on_c_stack(args, fn_ptr).
call_upcall_on_c_stack(task, args, fn_ptr) ==
    /\ call_on_c_stack(task, args, fn_ptr)
    /\ pair' = EnterPair(task, fn_ptr, args)
    /\ EntryFrame

UPCALL_SWITCH_STACK(T, A, F) == call_upcall_on_c_stack(T, A, F)

\* The handlers that the entry points reach only through UPCALL_SWITCH_STACK.
SwitchedHandlers ==
    {"upcall_s_fail", "upcall_s_trace", "upcall_s_exchange_malloc",
     "upcall_s_exchange_free", "upcall_s_malloc", "upcall_s_free"}

\* The handlers whose record has a return slot.
ValueHandlers ==
    {"upcall_s_exchange_malloc", "upcall_s_malloc", "upcall_s_rust_personality"}

InHandler(t, fn_ptr) == ~aborted /\ pc[t] = "handler" /\ call[t].fn = fn_ptr

\* A handler returns to call_on_c_stack.
HandlerDone(t) == pc' = [pc EXCEPT ![t] = "ret"]

(* ------------------------------- fail --------------------------------- *)
\* A variant of upcall_s_fail that logs the entry and returns without failing
\* the task.
upcall_s_fail_logged(t) ==
    /\ InHandler(t, "upcall_s_fail")
    /\ HandlerDone(t)
    /\ UNCHANGED <<aborted, mode, stk, frames, call, done, failure, heap,
                   live_allocs, origins, stk_chain, stk_cur, stk_limit, pair, marks>>

\* A variant of upcall_s_fail that passes the record's file as the expression and
\* its expression as the file.
upcall_s_fail_swapped(t) ==
    /\ InHandler(t, "upcall_s_fail")
    /\ LET args == call[t].args
           task == args.task
       IN  task_fail(t, task, args.file, args.expr, args.line)
    /\ UNCHANGED <<aborted, frames, done, heap, live_allocs, origins,
                   stk_chain, stk_cur, marks>>

upcall_s_fail(t) ==
    /\ InHandler(t, "upcall_s_fail")
    /\ LET args == call[t].args
           task == args.task
       IN  task_fail(t, task, args.expr, args.file, args.line)
    /\ UNCHANGED <<aborted, frames, done, heap, live_allocs, origins,
                   stk_chain, stk_cur, marks>>

upcall_fail(t, expr, file, line) ==
    /\ Running(t) /\ mode[t] = "normal"
    /\ LET task == t
           args == [task |-> task, expr |-> expr, file |-> file, line |-> line]
       IN  UPCALL_SWITCH_STACK(task, args, "upcall_s_fail")

rust_upcall_fail(t, expr, file, line) == upcall_fail(t, expr, file, line)

(* ------------------------------- trace -------------------------------- *)

upcall_s_trace(t) ==
    /\ InHandler(t, "upcall_s_trace")
    /\ HandlerDone(t)
    /\ UNCHANGED <<aborted, mode, stk, frames, call, done, failure, heap,
                   live_allocs, origins, stk_chain, stk_cur, stk_limit, pair, marks>>

\* A variant of upcall_trace whose record has no task field.
upcall_trace_taskless(t, msg, file, line) ==
    /\ Running(t) /\ mode[t] = "normal"
    /\ LET task == t
           args == [msg |-> msg, file |-> file, line |-> line]
       IN  UPCALL_SWITCH_STACK(task, args, "upcall_s_trace")

upcall_trace(t, msg, file, line) ==
    /\ Running(t) /\ mode[t] = "normal"
    /\ LET task == t
           args == [task |-> task, msg |-> msg, file |-> file, line |-> line]
       IN  UPCALL_SWITCH_STACK(task, args, "upcall_s_trace")

(* --------------------------- exchange heap ---------------------------- *)
\* A variant of upcall_s_exchange_malloc that gives the header the count of a
\* tracked box.
upcall_s_exchange_malloc_counted(t) ==
    /\ InHandler(t, "upcall_s_exchange_malloc")
    /\ LET args == call[t].args
           task == args.task
           total_size == get_box_size(args.size, args.td.align)
       IN  IF CanAllocate(total_size)
           THEN /\ \E p \in FreeAddrs :
                      /\ heap' = [kernel_calloc(heap, p) EXCEPT
                                     ![p].ref_count = 1,
                                     ![p].td = args.td]
                      /\ call' = [call EXCEPT ![t].args.retval = p]
                /\ HandlerDone(t)
                /\ UNCHANGED <<mode, stk, failure, stk_limit, pair>>
           ELSE /\ exhausted(t, task)
                /\ UNCHANGED heap
    /\ UNCHANGED <<aborted, frames, done, live_allocs, origins,
                   stk_chain, stk_cur, marks>>

\* A variant of upcall_s_exchange_malloc that takes the box from the task's local
\* heap before it marks the header as not ref counted.
upcall_s_exchange_malloc_local(t) ==
    /\ InHandler(t, "upcall_s_exchange_malloc")
    /\ LET args == call[t].args
           task == args.task
           total_size == get_box_size(args.size, args.td.align)
       IN  IF CanAllocate(total_size)
           THEN /\ \E p \in FreeAddrs :
                      /\ heap' = [boxed_calloc(heap, live_allocs[task], p, args.td)
                                     EXCEPT ![p].ref_count = Untracked]
                      /\ live_allocs' = [live_allocs EXCEPT ![task] = p]
                      /\ call' = [call EXCEPT ![t].args.retval = p]
                /\ HandlerDone(t)
                /\ UNCHANGED <<mode, stk, failure, stk_limit, pair>>
           ELSE /\ exhausted(t, task)
                /\ UNCHANGED <<heap, live_allocs>>
    /\ UNCHANGED <<aborted, frames, done, origins, stk_chain, stk_cur, marks>>

upcall_s_exchange_malloc(t) ==
    /\ InHandler(t, "upcall_s_exchange_malloc")
    /\ LET args == call[t].args
           task == args.task
           total_size == get_box_size(args.size, args.td.align)
       IN  IF CanAllocate(total_size)
           THEN /\ \E p \in FreeAddrs :
                      /\ heap' = [kernel_calloc(heap, p) EXCEPT
                                     ![p].ref_count = Untracked,
                                     ![p].td = args.td,
                                     ![p].prev = NULL,
                                     ![p].next = NULL]
                      /\ call' = [call EXCEPT ![t].args.retval = p]
                /\ HandlerDone(t)
                /\ UNCHANGED <<mode, stk, failure, stk_limit, pair>>
           ELSE /\ exhausted(t, task)
                /\ UNCHANGED heap
    /\ UNCHANGED <<aborted, frames, done, live_allocs, origins,
                   stk_chain, stk_cur, marks>>

upcall_exchange_malloc(t, td, size) ==
    /\ Running(t) /\ mode[t] = "normal"
    /\ LET task == t
           args == [task |-> task, retval |-> 0, td |-> td, size |-> size]
       IN  UPCALL_SWITCH_STACK(task, args, "upcall_s_exchange_malloc")

rust_upcall_exchange_malloc(t, td, size) == upcall_exchange_malloc(t, td, size)

upcall_s_exchange_free(t) ==
    /\ InHandler(t, "upcall_s_exchange_free")
    /\ LET args == call[t].args
       IN  heap' = kernel_free(heap, args.ptr)
    /\ HandlerDone(t)
    /\ UNCHANGED <<aborted, mode, stk, frames, call, done, failure,
                   live_allocs, origins, stk_chain, stk_cur, stk_limit, pair, marks>>

\* The callers' contract: ptr is a live exchange box that no other thread is freeing.
\* (a box whose allocate has not yet returned to its caller is owned by nobody yet).
ExchangeOwned(ptr) ==
    /\ heap[ptr].alloc = "kernel"
    /\ \A u \in Tasks :
          /\ ~(call[u].fn = "upcall_s_exchange_free" /\ call[u].args.ptr = ptr)
          /\ ~(call[u].fn = "upcall_s_exchange_malloc" /\ call[u].args.retval = ptr)
          /\ ~(done[u].fn = "upcall_s_exchange_malloc" /\ done[u].ret = ptr)

upcall_exchange_free(t, ptr) ==
    /\ Running(t) /\ mode[t] = "normal"
    /\ ExchangeOwned(ptr)
    /\ LET task == t
           args == [task |-> task, ptr |-> ptr]
       IN  UPCALL_SWITCH_STACK(task, args, "upcall_s_exchange_free")

rust_upcall_exchange_free(t, ptr) == upcall_exchange_free(t, ptr)

(* -------------------------- task-local heap --------------------------- *)
\* A variant of upcall_s_malloc that returns a null header when the local heap
\* cannot satisfy the request.
upcall_s_malloc_null(t) ==
    /\ InHandler(t, "upcall_s_malloc")
    /\ LET args == call[t].args
           task == args.task
       IN  IF CanAllocate(get_box_size(args.size, args.td.align))
           THEN \E box \in FreeAddrs :
                   /\ heap' = boxed_calloc(heap, live_allocs[task], box, args.td)
                   /\ live_allocs' = [live_allocs EXCEPT ![task] = box]
                   /\ origins' = [origins EXCEPT ![task] = @ \cup {box}]
                   /\ call' = [call EXCEPT ![t].args.retval = box]
           ELSE /\ call' = [call EXCEPT ![t].args.retval = NULL]
                /\ UNCHANGED <<heap, live_allocs, origins>>
    /\ HandlerDone(t)
    /\ UNCHANGED <<aborted, mode, stk, frames, done, failure, stk_chain, stk_cur,
                   stk_limit, pair, marks>>

\* A variant of upcall_s_malloc that takes the block from the kernel allocator and
\* installs the header itself, without the local heap.
upcall_s_malloc_unlinked(t) ==
    /\ InHandler(t, "upcall_s_malloc")
    /\ LET args == call[t].args
           task == args.task
       IN  IF CanAllocate(get_box_size(args.size, args.td.align))
           THEN /\ \E box \in FreeAddrs :
                      /\ heap' = [kernel_calloc(heap, box) EXCEPT
                                     ![box].alloc = "boxed",
                                     ![box].ref_count = 1,
                                     ![box].td = args.td]
                      /\ origins' = [origins EXCEPT ![task] = @ \cup {box}]
                      /\ call' = [call EXCEPT ![t].args.retval = box]
                /\ HandlerDone(t)
                /\ UNCHANGED <<mode, stk, failure, stk_limit, pair, live_allocs>>
           ELSE /\ exhausted(t, task)
                /\ UNCHANGED <<heap, live_allocs, origins>>
    /\ UNCHANGED <<aborted, frames, done, stk_chain, stk_cur, marks>>

upcall_s_malloc(t) ==
    /\ InHandler(t, "upcall_s_malloc")
    /\ LET args == call[t].args
           task == args.task
       IN  IF CanAllocate(get_box_size(args.size, args.td.align))
           THEN /\ \E box \in FreeAddrs :
                      /\ heap' = boxed_calloc(heap, live_allocs[task], box, args.td)
                      /\ live_allocs' = [live_allocs EXCEPT ![task] = box]
                      /\ origins' = [origins EXCEPT ![task] = @ \cup {box}]
                      /\ call' = [call EXCEPT ![t].args.retval = box]
                /\ HandlerDone(t)
                /\ UNCHANGED <<mode, stk, failure, stk_limit, pair>>
           ELSE /\ exhausted(t, task)
                /\ UNCHANGED <<heap, live_allocs, origins>>
    /\ UNCHANGED <<aborted, frames, done, stk_chain, stk_cur, marks>>

\* A variant of upcall_malloc that stores another task than the calling thread's
\* current task in the record.
upcall_malloc_foreign(t, td, size) ==
    /\ Running(t) /\ mode[t] = "normal"
    /\ LET task == t
           args == [task |-> CHOOSE u \in Tasks : u # t,
                    retval |-> 0, td |-> td, size |-> size]
       IN  UPCALL_SWITCH_STACK(task, args, "upcall_s_malloc")

upcall_malloc(t, td, size) ==
    /\ Running(t) /\ mode[t] = "normal"
    /\ LET task == t
           args == [task |-> task, retval |-> 0, td |-> td, size |-> size]
       IN  UPCALL_SWITCH_STACK(task, args, "upcall_s_malloc")
\* A variant of rust_upcall_malloc wired to the exchange heap's entry point.
rust_upcall_malloc_exchange(t, td, size) == upcall_exchange_malloc(t, td, size)

rust_upcall_malloc(t, td, size) == upcall_malloc(t, td, size)
\* A variant of upcall_s_free that hands the box to the kernel allocator instead
\* of the task's local heap.
upcall_s_free_kernel(t) ==
    /\ InHandler(t, "upcall_s_free")
    /\ LET args == call[t].args
           task == args.task
       IN  /\ origins' = [origins EXCEPT ![task] = @ \ {args.ptr}]
           /\ heap' = kernel_free(heap, args.ptr)
    /\ HandlerDone(t)
    /\ UNCHANGED <<aborted, mode, stk, frames, call, done, failure, live_allocs,
                   stk_chain, stk_cur, stk_limit, pair, marks>>

\* upcall_s_free, first half: debug::maybe_untrack_origin(task, args->ptr), while
\* the box is still the local heap's.
upcall_s_free_untrack(t) ==
    /\ InHandler(t, "upcall_s_free")
    /\ LET args == call[t].args
           task == args.task
       IN  origins' = [origins EXCEPT ![task] = @ \ {args.ptr}]
    /\ pc' = [pc EXCEPT ![t] = "untracked"]
    /\ UNCHANGED <<aborted, mode, stk, frames, call, done, failure, heap,
                   live_allocs, stk_chain, stk_cur, stk_limit, pair, marks>>

\* upcall_s_free, second half: task->boxed.free(box).
upcall_s_free_release(t) ==
    /\ ~aborted /\ pc[t] = "untracked" /\ call[t].fn = "upcall_s_free"
    /\ LET args == call[t].args
           task == args.task
           box == args.ptr
       IN  /\ heap' = boxed_free(heap, box)
           /\ live_allocs' = [live_allocs EXCEPT ![task] =
                                 boxed_free_head(heap, live_allocs[task], box)]
    /\ HandlerDone(t)
    /\ UNCHANGED <<aborted, mode, stk, frames, call, done, failure, origins,
                   stk_chain, stk_cur, stk_limit, pair, marks>>
\* A variant of upcall_s_free that releases the box to the local heap before it
\* tells the tracker.
upcall_s_free_release_first(t) ==
    \/ /\ InHandler(t, "upcall_s_free")
       /\ LET args == call[t].args
              task == args.task
              box == args.ptr
          IN  /\ heap' = boxed_free(heap, box)
              /\ live_allocs' = [live_allocs EXCEPT ![task] =
                                    boxed_free_head(heap, live_allocs[task], box)]
       /\ pc' = [pc EXCEPT ![t] = "untracked"]
       /\ UNCHANGED <<aborted, mode, stk, frames, call, done, failure, origins,
                      stk_chain, stk_cur, stk_limit, pair, marks>>
    \/ /\ ~aborted /\ pc[t] = "untracked" /\ call[t].fn = "upcall_s_free"
       /\ LET args == call[t].args
              task == args.task
          IN  origins' = [origins EXCEPT ![task] = @ \ {args.ptr}]
       /\ HandlerDone(t)
       /\ UNCHANGED <<aborted, mode, stk, frames, call, done, failure, heap,
                      live_allocs, stk_chain, stk_cur, stk_limit, pair, marks>>

upcall_s_free(t) == upcall_s_free_untrack(t) \/ upcall_s_free_release(t)

\* The callers' contract: ptr is a box this task allocated and has not freed.
upcall_free(t, ptr) ==
    /\ Running(t) /\ mode[t] = "normal"
    /\ ptr \in LiveSet(t)
    /\ LET task == t
           args == [task |-> task, ptr |-> ptr]
       IN  UPCALL_SWITCH_STACK(task, args, "upcall_s_free")

rust_upcall_free(t, ptr) == upcall_free(t, ptr)

(* ---------------------------- personality ----------------------------- *)

\* __gxx_personality_v0, the platform's routine: a function of its inputs, giving
\* _URC_HANDLER_FOUND (6) in the search phase, _URC_INSTALL_CONTEXT (7) in the
\* cleanup phase, _URC_CONTINUE_UNWIND (8) for a foreign exception class and
\* _URC_FATAL_PHASE1_ERROR (3) for an unknown version.
gxx_personality_v0(version, actions, exception_class, ue_header, context) ==
    IF version # 1 THEN 3
    ELSE IF exception_class # 7 THEN 8
    ELSE IF actions = 1 THEN 6 ELSE 7

upcall_s_rust_personality(t) ==
    /\ InHandler(t, "upcall_s_rust_personality")
    /\ LET args == call[t].args
       IN  call' = [call EXCEPT ![t].args.retval =
                       gxx_personality_v0(args.version, args.actions,
                                          args.exception_class, args.ue_header,
                                          args.context)]
    /\ HandlerDone(t)
    /\ UNCHANGED <<aborted, mode, stk, frames, done, failure, heap, live_allocs,
                   origins, stk_chain, stk_cur, stk_limit, pair, marks>>

\* rust_task::on_rust_stack.
on_rust_stack(task) == stk[task] = "rust"
\* A variant of upcall_rust_personality that calls the handler only after a
\* switch: entered on the native stack it returns the record's zeroed slot.
upcall_rust_personality_skips(t, version, actions, exception_class, ue_header, context) ==
    /\ Running(t) /\ mode[t] = "unwinding"
    /\ LET args == [retval |-> 0, version |-> version, actions |-> actions,
                    exception_class |-> exception_class, ue_header |-> ue_header,
                    context |-> context]
           task == t
       IN  IF on_rust_stack(task)
           THEN UPCALL_SWITCH_STACK(task, args, "upcall_s_rust_personality")
           ELSE /\ done' = [done EXCEPT ![t] =
                               [fn |-> "upcall_s_rust_personality", args |-> args,
                                site |-> Site(t), switched |-> FALSE,
                                ret |-> args.retval]]
                /\ pc' = [pc EXCEPT ![t] = "returned"]
                /\ UNCHANGED <<aborted, mode, stk, frames, call, failure, heap,
                               live_allocs, origins, stk_chain, stk_cur, stk_limit,
                               pair, marks>>

\* A variant of upcall_rust_personality without the on_rust_stack test: the
\* handler is always called where the wrapper stands.
upcall_rust_personality_direct(t, version, actions, exception_class, ue_header, context) ==
    /\ Running(t) /\ mode[t] = "unwinding"
    /\ LET args == [retval |-> 0, version |-> version, actions |-> actions,
                    exception_class |-> exception_class, ue_header |-> ue_header,
                    context |-> context]
           task == t
       IN  /\ call' = [call EXCEPT ![task] =
                          [fn |-> "upcall_s_rust_personality", args |-> args,
                           sp |-> stk[task], switched |-> FALSE,
                           site |-> Site(task)]]
           /\ pc' = [pc EXCEPT ![task] = "handler"]
           /\ pair' = [pair EXCEPT ![task] = NoPair]
           /\ UNCHANGED stk
           /\ EntryFrame

\* The unwinder calls the personality routine for the frames of a task through
\* which a failure propagates.
upcall_rust_personality(t, version, actions, exception_class, ue_header, context) ==
    /\ Running(t) /\ mode[t] = "unwinding"
    /\ LET args == [retval |-> 0, version |-> version, actions |-> actions,
                    exception_class |-> exception_class, ue_header |-> ue_header,
                    context |-> context]
           task == t
       IN  IF on_rust_stack(task)
           THEN UPCALL_SWITCH_STACK(task, args, "upcall_s_rust_personality")
           ELSE /\ call' = [call EXCEPT ![task] =
                               [fn |-> "upcall_s_rust_personality", args |-> args,
                                sp |-> stk[task], switched |-> FALSE,
                                site |-> Site(task)]]
                /\ pc' = [pc EXCEPT ![task] = "handler"]
                /\ pair' = [pair EXCEPT ![task] = NoPair]
                /\ UNCHANGED stk
                /\ EntryFrame

(* ------------------------ return to the caller ------------------------ *)

\* "return args.retval" of upcall_exchange_malloc, upcall_malloc and
\* upcall_rust_personality; the other entry points return nothing.
\* A variant of ReturnValue for an entry point that passes its record to the
\* handler by value: it returns the slot as it built it.
ReturnValue_initial(c) == IF c.fn \in ValueHandlers THEN 0 ELSE "void"

ReturnValue(c) == IF c.fn \in ValueHandlers THEN c.args.retval ELSE "void"

ReturnPair(t) ==
    IF call[t].fn = "upcall_s_malloc"
    THEN [pair EXCEPT ![t] = [state |-> "allocated", p |-> call[t].args.retval,
                              before |-> call[t].site.live]]
    ELSE IF call[t].fn = "upcall_s_free" /\ pair[t].state = "freeing"
    THEN [pair EXCEPT ![t].state = "freed"]
    ELSE [pair EXCEPT ![t] = NoPair]

\* The handler has returned: the task goes back to the stack of the call site and
\* the entry point returns to its caller.
upcall_return(t) ==
    /\ ~aborted /\ pc[t] = "ret"
    /\ stk' = [stk EXCEPT ![t] = call_on_c_stack_return(t)]
    /\ done' = [done EXCEPT ![t] =
                   [fn |-> call[t].fn, args |-> call[t].args, site |-> call[t].site,
                    switched |-> call[t].switched, ret |-> ReturnValue(call[t])]]
    /\ call' = [call EXCEPT ![t] = NoCall]
    /\ pc' = [pc EXCEPT ![t] = "returned"]
    /\ pair' = ReturnPair(t)
    /\ UNCHANGED <<aborted, mode, frames, failure, heap, live_allocs, origins,
                   stk_chain, stk_cur, stk_limit, marks>>

\* The caller takes the result and goes on.
resume(t) ==
    /\ ~aborted /\ pc[t] = "returned"
    /\ pc' = [pc EXCEPT ![t] = "run"]
    /\ done' = [done EXCEPT ![t] = NoDone]
    /\ pair' = IF pair[t].state = "freed" THEN [pair EXCEPT ![t] = NoPair] ELSE pair
    /\ UNCHANGED <<aborted, mode, stk, frames, call, failure, heap, live_allocs,
                   origins, stk_chain, stk_cur, stk_limit, marks>>

(* --------------------------- stack segments --------------------------- *)

\* The frame base generated code uses on segment number seg of the given size.
FrameBase(seg, size, args_sz) == [seg |-> seg, off |-> size - args_sz]

\* rust_task::next_stack: the next segment becomes current; a cached one is
\* reused when it is large enough, otherwise a segment that fits is acquired.
next_stack(chain, cur, stk_sz, args_sz) ==
    LET need == stk_sz + args_sz
    IN  IF cur < Len(chain) /\ chain[cur + 1].size >= need
        THEN [chain EXCEPT ![cur + 1].base =
                 FrameBase(cur + 1, chain[cur + 1].size, args_sz)]
        ELSE Append(SubSeq(chain, 1, cur),
                    [size |-> need, base |-> FrameBase(cur + 1, need, args_sz)])

\* rust_task::prev_stack: the previous segment becomes current again.
prev_stack(cur) == cur - 1

Returned(t, fn_name, args, ret) ==
    /\ done' = [done EXCEPT ![t] =
                   [fn |-> fn_name, args |-> args, site |-> Site(t),
                    switched |-> FALSE, ret |-> ret]]
    /\ pc' = [pc EXCEPT ![t] = "returned"]

\* A variant of upcall_new_stack that has the task switch to the native stack for
\* next_stack and return from there.
upcall_new_stack_switching(t, stk_sz, args_sz) ==
    /\ Running(t) /\ mode[t] = "normal" /\ stk[t] = "rust"
    /\ stk_cur[t] < MaxSegs
    /\ LET task == t
           chain == next_stack(stk_chain[task], stk_cur[task], stk_sz, args_sz)
       IN  /\ stk_chain' = [stk_chain EXCEPT ![task] = chain]
           /\ stk_cur' = [stk_cur EXCEPT ![task] = @ + 1]
           /\ stk_limit' = [stk_limit EXCEPT ![task] = stk_cur[task] + 1]
           /\ marks' = [marks EXCEPT ![task] =
                           Append(@, [cur |-> stk_cur[task],
                                      base |-> stk_chain[task][stk_cur[task]].base])]
           /\ Returned(t, "upcall_new_stack", <<stk_sz, args_sz>>,
                       chain[stk_cur[task] + 1].base)
    /\ stk' = [stk EXCEPT ![t] = "c"]
    /\ UNCHANGED <<aborted, mode, frames, call, failure, heap, live_allocs,
                   origins, pair>>

upcall_new_stack(t, stk_sz, args_sz) ==
    /\ Running(t) /\ mode[t] = "normal" /\ stk[t] = "rust"
    /\ stk_cur[t] < MaxSegs
    /\ LET task == t
           chain == next_stack(stk_chain[task], stk_cur[task], stk_sz, args_sz)
       IN  /\ stk_chain' = [stk_chain EXCEPT ![task] = chain]
           /\ stk_cur' = [stk_cur EXCEPT ![task] = @ + 1]
           /\ stk_limit' = [stk_limit EXCEPT ![task] = stk_cur[task] + 1]
           /\ marks' = [marks EXCEPT ![task] =
                           Append(@, [cur |-> stk_cur[task],
                                      base |-> stk_chain[task][stk_cur[task]].base])]
           /\ Returned(t, "upcall_new_stack", <<stk_sz, args_sz>>,
                       chain[stk_cur[task] + 1].base)
    /\ UNCHANGED <<aborted, mode, stk, frames, call, failure, heap, live_allocs,
                   origins, pair>>
\* A variant of upcall_del_stack that returns without calling prev_stack.
upcall_del_stack_keeps(t) ==
    /\ Running(t) /\ mode[t] = "normal" /\ stk[t] = "rust"
    /\ stk_cur[t] > 1
    /\ LET task == t
       IN  /\ marks' = [marks EXCEPT ![task] = SubSeq(@, 1, Len(@) - 1)]
           /\ Returned(t, "upcall_del_stack", marks[task][Len(marks[task])], "void")
    /\ UNCHANGED <<aborted, mode, stk, frames, call, failure, heap, live_allocs,
                   origins, stk_chain, stk_cur, stk_limit, pair>>

\* Called on return from a function that grew the stack.
upcall_del_stack(t) ==
    /\ Running(t) /\ mode[t] = "normal" /\ stk[t] = "rust"
    /\ stk_cur[t] > 1
    /\ LET task == t
       IN  /\ stk_cur' = [stk_cur EXCEPT ![task] = prev_stack(@)]
           /\ stk_limit' = [stk_limit EXCEPT ![task] = prev_stack(stk_cur[task])]
           /\ marks' = [marks EXCEPT ![task] = SubSeq(@, 1, Len(@) - 1)]
           /\ Returned(t, "upcall_del_stack", marks[task][Len(marks[task])], "void")
    /\ UNCHANGED <<aborted, mode, stk, frames, call, failure, heap, live_allocs,
                   origins, stk_chain, pair>>

\* rust_task::reset_stack_limit publishes the current segment's limit in TLS.
upcall_reset_stack_limit(t) ==
    /\ Running(t) /\ stk[t] = "rust"
    /\ LET task == t
       IN  stk_limit' = [stk_limit EXCEPT ![task] = stk_cur[task]]
    /\ Returned(t, "upcall_reset_stack_limit", <<>>, "void")
    /\ UNCHANGED <<aborted, mode, stk, frames, call, failure, heap, live_allocs,
                   origins, stk_chain, stk_cur, pair, marks>>

(* --------------------------- boundary shims --------------------------- *)

Top(t) == frames[t][Len(frames[t])]

Pop(t) == SubSeq(frames[t], 1, Len(frames[t]) - 1)

ShimFrame ==
    UNCHANGED <<aborted, mode, pc, call, done, failure, heap, live_allocs, origins,
                stk_chain, stk_cur, stk_limit, pair, marks>>

\* upcall_call_shim_on_c_stack, the try block: generated code, on the guest stack,
\* has the task run fn_ptr(args) on the native stack.
upcall_call_shim_on_c_stack(t) ==
    /\ Running(t) /\ mode[t] = "normal" /\ stk[t] = "rust"
    /\ Len(frames[t]) < MaxDepth
    /\ frames' = [frames EXCEPT ![t] = Append(@, [shim |-> "on_c_stack", sp |-> stk[t]])]
    /\ stk' = [stk EXCEPT ![t] = "c"]
    /\ ShimFrame

\* upcall_call_shim_on_rust_stack, the try block: native code, on the native
\* stack, has the task run fn_ptr(args) on the guest stack.
upcall_call_shim_on_rust_stack(t) ==
    /\ Running(t) /\ mode[t] = "normal" /\ stk[t] = "c"
    /\ Len(frames[t]) < MaxDepth
    /\ frames' = [frames EXCEPT ![t] = Append(@, [shim |-> "on_rust_stack", sp |-> stk[t]])]
    /\ stk' = [stk EXCEPT ![t] = "rust"]
    /\ ShimFrame

\* The stack a shim's function runs on.
ShimStack(f) == IF f.shim = "on_c_stack" THEN "c" ELSE "rust"

\* fn_ptr(args) returns: the task goes back to the stack of the shim's caller.
shim_return(t) ==
    /\ Running(t) /\ mode[t] = "normal"
    /\ frames[t] # <<>> /\ stk[t] = ShimStack(Top(t))
    /\ stk' = [stk EXCEPT ![t] = Top(t).sp]
    /\ frames' = [frames EXCEPT ![t] = Pop(t)]
    /\ ShimFrame

\* Foreign code, run by upcall_call_shim_on_c_stack, throws an exception.
foreign_throw(t) ==
    /\ Running(t) /\ mode[t] = "normal"
    /\ frames[t] # <<>> /\ Top(t).shim = "on_c_stack" /\ stk[t] = "c"
    /\ mode' = [mode EXCEPT ![t] = "unwinding"]
    /\ stk_limit' = [stk_limit EXCEPT ![t] = 0]
    /\ pair' = [pair EXCEPT ![t] = NoPair]
    /\ UNCHANGED <<aborted, pc, stk, frames, call, done, failure, heap, live_allocs,
                   origins, stk_chain, stk_cur, marks>>

\* A failure has reached the frame of the innermost shim of the given kind.
AtBoundary(t, shim) ==
    /\ Running(t) /\ mode[t] = "unwinding"
    /\ frames[t] # <<>> /\ Top(t).shim = shim

\* upcall_call_shim_on_c_stack, catch (...): assert(false && "Foreign code threw
\* an exception").
upcall_call_shim_on_c_stack_catch(t) ==
    /\ AtBoundary(t, "on_c_stack")
    /\ aborted' = TRUE
    /\ UNCHANGED <<mode, pc, stk, frames, call, done, failure, heap, live_allocs,
                   origins, stk_chain, stk_cur, stk_limit, pair, marks>>
\* A variant of upcall_call_shim_on_rust_stack without the catch block: the failure
\* leaves the shim and goes on through the caller's frames.
upcall_call_shim_on_rust_stack_rethrow(t) ==
    /\ AtBoundary(t, "on_rust_stack")
    /\ stk' = [stk EXCEPT ![t] = Top(t).sp]
    /\ frames' = [frames EXCEPT ![t] = Pop(t)]
    /\ UNCHANGED <<aborted, mode, pc, call, done, failure, heap, live_allocs,
                   origins, stk_chain, stk_cur, stk_limit, pair, marks>>

\* upcall_call_shim_on_rust_stack, catch (...): assert(false && "Rust task failed
\* after reentering the Rust stack").
upcall_call_shim_on_rust_stack_catch(t) ==
    /\ AtBoundary(t, "on_rust_stack")
    /\ aborted' = TRUE
    /\ UNCHANGED <<mode, pc, stk, frames, call, done, failure, heap, live_allocs,
                   origins, stk_chain, stk_cur, stk_limit, pair, marks>>

\* A failure that meets no shim unwinds the whole task, which ends.
task_unwound(t) ==
    /\ Running(t) /\ mode[t] = "unwinding" /\ frames[t] = <<>>
    /\ mode' = [mode EXCEPT ![t] = "dead"]
    /\ UNCHANGED <<aborted, pc, stk, frames, call, done, failure, heap, live_allocs,
                   origins, stk_chain, stk_cur, stk_limit, pair, marks>>

(* --------------------------- specification ---------------------------- *)

Init ==
    /\ aborted = FALSE
    /\ mode = [t \in Tasks |-> "normal"]
    /\ pc = [t \in Tasks |-> "run"]
    /\ stk = [t \in Tasks |-> "rust"]
    /\ frames = [t \in Tasks |-> <<>>]
    /\ call = [t \in Tasks |-> NoCall]
    /\ done = [t \in Tasks |-> NoDone]
    /\ failure = [t \in Tasks |-> NoFailure]
    /\ heap = [a \in Addrs |-> FreeBlock]
    /\ live_allocs = [t \in Tasks |-> NULL]
    /\ origins = [t \in Tasks |-> {}]
    /\ stk_chain = [t \in Tasks |-> <<[size |-> 2, base |-> FrameBase(1, 2, 0)]>>]
    /\ stk_cur = [t \in Tasks |-> 1]
    /\ stk_limit = [t \in Tasks |-> 1]
    /\ pair = [t \in Tasks |-> NoPair]
    /\ marks = [t \in Tasks |-> <<>>]

\* The allocation upcalls, their aliases and their handlers.
heap_step(t) ==
    \/ \E td \in TypeDescs, size \in Sizes : upcall_exchange_malloc(t, td, size)
    \/ \E td \in TypeDescs, size \in Sizes : rust_upcall_exchange_malloc(t, td, size)
    \/ upcall_s_exchange_malloc(t)
    \/ \E ptr \in Addrs : upcall_exchange_free(t, ptr)
    \/ \E ptr \in Addrs : rust_upcall_exchange_free(t, ptr)
    \/ upcall_s_exchange_free(t)
    \/ \E td \in TypeDescs, size \in Sizes : upcall_malloc(t, td, size)
    \/ \E td \in TypeDescs, size \in Sizes : rust_upcall_malloc(t, td, size)
    \/ upcall_s_malloc(t)
    \/ \E ptr \in Addrs : upcall_free(t, ptr)
    \/ \E ptr \in Addrs : rust_upcall_free(t, ptr)
    \/ upcall_s_free(t)

\* Failure and tracing, and the end of every upcall.
fail_step(t) ==
    \/ \E i \in FailInputs : upcall_fail(t, i[1], i[2], i[3])
    \/ \E i \in FailInputs : rust_upcall_fail(t, i[1], i[2], i[3])
    \/ upcall_s_fail(t)
    \/ \E i \in TraceInputs : upcall_trace(t, i[1], i[2], i[3])
    \/ upcall_s_trace(t)
    \/ upcall_return(t)
    \/ resume(t)
    \/ task_unwound(t)

\* Unwinding support, stack segments and the boundary shims.
stack_step(t) ==
    \/ \E i \in PersonalityInputs :
          upcall_rust_personality(t, i[1], i[2], i[3], i[4], i[5])
    \/ upcall_s_rust_personality(t)
    \/ \E i \in StackInputs : upcall_new_stack(t, i[1], i[2])
    \/ upcall_del_stack(t)
    \/ upcall_reset_stack_limit(t)
    \/ upcall_call_shim_on_c_stack(t)
    \/ upcall_call_shim_on_rust_stack(t)
    \/ shim_return(t)
    \/ foreign_throw(t)
    \/ upcall_call_shim_on_c_stack_catch(t)
    \/ upcall_call_shim_on_rust_stack_catch(t)

\* One thread runs one task, which uses every operation of the layer.
Next == \E t \in {"t1"} : heap_step(t) \/ fail_step(t) \/ stack_step(t)

\* Two threads run one task each; the tasks allocate, free, trace and fail.
NextConcurrent == \E t \in Tasks : heap_step(t) \/ fail_step(t)

Spec == Init /\ [][Next]_vars

SpecConcurrent == Init /\ [][NextConcurrent]_vars

(* ============================== claims ================================ *)

(* C1: a handler reached through the stack-switch primitive runs while its task
   is on the native stack, whether the entry point was called on the guest
   stack (a switch) or on the native stack (a direct call, no switch). *)
C1_HandlerOnNativeStack ==
    \A t \in Tasks :
        (pc[t] = "handler" /\ call[t].fn \in SwitchedHandlers) =>
            /\ stk[t] = "c"
            /\ call[t].switched <=> (call[t].site.stk = "rust")

C1_Witness ==
    \E t \in Tasks :
        /\ pc[t] = "handler" /\ call[t].fn = "upcall_s_malloc"
        /\ call[t].site.stk = "c" /\ ~call[t].switched /\ stk[t] = "c"

(* C2: a failure that propagates out of the function a boundary shim runs never
   gets past the shim and the shim never returns normally: the task stays
   inside the shim, unwinding, and the only way on is the abort of the process. *)
C2_ShimsTrapFailures ==
    [][ /\ \A t \in Tasks :
              (mode[t] = "unwinding" /\ frames[t] # <<>>) =>
                  (frames'[t] = frames[t] /\ mode'[t] = "unwinding")
        /\ (aborted' /\ ~aborted) =>
              \E t \in Tasks : mode[t] = "unwinding" /\ frames[t] # <<>>
      ]_vars

C2_Witness ==
    /\ aborted
    /\ \E t \in Tasks :
          /\ mode[t] = "unwinding" /\ failure[t].cause = "fail"
          /\ Len(frames[t]) = 2
          /\ frames[t][1].shim = "on_c_stack" /\ frames[t][2].shim = "on_rust_stack"

(* C3: the header upcall_exchange_malloc returns has ref-count -1, the type
   descriptor passed in and no links, and as long as it lives it is in no
   task's live-allocation list. *)
ExchangeHeader(a) ==
    /\ heap[a].ref_count = Untracked
    /\ heap[a].prev = NULL /\ heap[a].next = NULL
    /\ \A u \in Tasks : a \notin LiveSet(u)

C3_ExchangeUntracked ==
    /\ \A a \in Addrs : heap[a].alloc = "kernel" => ExchangeHeader(a)
    /\ \A t \in Tasks :
          (pc[t] = "returned" /\ done[t].fn = "upcall_s_exchange_malloc") =>
              /\ done[t].ret \in Addrs
              /\ heap[done[t].ret].alloc = "kernel"
              /\ heap[done[t].ret].td = done[t].args.td
              /\ ExchangeHeader(done[t].ret)

C3_Witness ==
    \E t, u \in Tasks :
        /\ pc[t] = "returned" /\ done[t].fn = "upcall_s_exchange_malloc"
        /\ done[t].ret \in Addrs
        /\ LiveSet(u) # {}

(* C4: upcall_malloc followed immediately by upcall_free of the header it
   returned leaves the task's live-allocation list with the count and the
   members it had before the allocate. *)
C4_MallocFreeRestoresList ==
    \A t \in Tasks :
        (pc[t] = "returned" /\ done[t].fn = "upcall_s_free" /\ pair[t].state = "freed") =>
            /\ Len(LiveList(t)) = Len(pair[t].before)
            /\ LiveSet(t) = {pair[t].before[i] : i \in 1 .. Len(pair[t].before)}

C4_Witness ==
    \E t \in Tasks :
        /\ pc[t] = "returned" /\ done[t].fn = "upcall_s_free"
        /\ pair[t].state = "freed" /\ pair[t].before # <<>>

(* C5 (as stated): once a task has called upcall_fail it is failing, the call
   does not return normally, and no upcall of that task completes normally
   afterwards. *)
C5_NoUpcallCompletesAfterFail ==
    \A t \in Tasks :
        failure[t].cause = "fail" =>
            (mode[t] # "normal" /\ pc[t] # "returned")

(* C5 (amended): once a task has called upcall_fail (or rust_upcall_fail) it is
   failing and stays so, and the fail call itself never returns normally to the
   generated code; the upcalls made while the failure unwinds the task do
   complete. *)
FailNeverReturns ==
    \A t \in Tasks :
        /\ pc[t] = "ret" => call[t].fn # "upcall_s_fail"
        /\ pc[t] = "returned" => done[t].fn # "upcall_s_fail"
        /\ failure[t].cause = "fail" => mode[t] \in {"unwinding", "dead"}

C5_FailDoesNotReturn ==
    [][ /\ FailNeverReturns'
        /\ \A t \in Tasks :
              failure[t].cause = "fail" => failure'[t] = failure[t]
      ]_vars

C5_Witness ==
    \E t \in Tasks :
        /\ failure[t].cause = "fail" /\ mode[t] = "unwinding"
        /\ pc[t] = "returned" /\ done[t].fn = "upcall_s_rust_personality"

(* C6: when the backing allocator cannot satisfy the request, upcall_malloc and
   upcall_exchange_malloc fail the task: no header is written, and no null or
   partly initialised header is returned. *)
AllocHandlers == {"upcall_s_malloc", "upcall_s_exchange_malloc"}

Installed(p, td) ==
    /\ p \in Addrs
    /\ heap[p].alloc # "free"
    /\ heap[p].td = td

NoNullHeader ==
    \A t \in Tasks :
        /\ (pc[t] = "ret" /\ call[t].fn \in AllocHandlers) =>
              Installed(call[t].args.retval, call[t].args.td)
        /\ (pc[t] = "returned" /\ done[t].fn \in AllocHandlers) =>
              Installed(done[t].ret, done[t].args.td)
        /\ failure[t].cause = "exhausted" => mode[t] \in {"unwinding", "dead"}

C6_ExhaustionFailsTask ==
    [][ /\ NoNullHeader'
        /\ \A t \in Tasks :
              ( /\ pc[t] = "handler" /\ pc'[t] # "handler"
                /\ call[t].fn \in AllocHandlers
                /\ ~CanAllocate(get_box_size(call[t].args.size, call[t].args.td.align)) )
              => ( /\ failure'[t].cause = "exhausted"
                   /\ mode'[t] = "unwinding"
                   /\ heap' = heap )
      ]_vars

C6_Witness ==
    \E t, u \in Tasks :
        /\ failure[t].cause = "exhausted" /\ mode[t] = "unwinding"
        /\ FreeAddrs = {}
        /\ LiveSet(u) # {}

(* C7: when an upcall made through the stack-switch primitive has returned, the
   task is on the stack of the call site, and its shims, its stack segments, its
   mode and (unless the upcall is the task-local allocate or free) its
   live-allocation list are those of the call site. *)
SwitchedCall(d) ==
    \/ d.fn \in SwitchedHandlers
    \/ d.fn = "upcall_s_rust_personality" /\ d.switched

C7_ReturnsToCallSite ==
    \A t \in Tasks :
        (pc[t] = "returned" /\ SwitchedCall(done[t])) =>
            /\ stk[t] = done[t].site.stk
            /\ frames[t] = done[t].site.frames
            /\ stk_cur[t] = done[t].site.cur
            /\ stk_chain[t] = done[t].site.chain
            /\ mode[t] = done[t].site.mode
            /\ done[t].fn \notin {"upcall_s_malloc", "upcall_s_free"} =>
                  LiveList(t) = done[t].site.live

C7_Witness ==
    \E t \in Tasks :
        /\ pc[t] = "returned" /\ done[t].fn = "upcall_s_exchange_malloc"
        /\ done[t].switched /\ done[t].site.stk = "rust" /\ stk[t] = "rust"
        /\ frames[t] # <<>> /\ stk_cur[t] > 1

(* C8: upcall_rust_personality returns the value the native personality routine
   gives for its inputs, entered on the native stack as well as entered on the
   guest stack. *)
C8_PersonalityTransparent ==
    \A t \in Tasks :
        (pc[t] = "returned" /\ done[t].fn = "upcall_s_rust_personality") =>
            done[t].ret =
                gxx_personality_v0(done[t].args.version, done[t].args.actions,
                                   done[t].args.exception_class,
                                   done[t].args.ue_header, done[t].args.context)

C8_Witness ==
    \E t \in Tasks :
        /\ pc[t] = "returned" /\ done[t].fn = "upcall_s_rust_personality"
        /\ ~done[t].switched /\ done[t].site.stk = "c"
        /\ done[t].ret = 7

(* C9: upcall_del_stack makes the segment current that was current before the
   matching upcall_new_stack, with the frame base it had then; so every
   balanced sequence of the two ends on the segment it started on. *)
C9_DelStackRestores ==
    \A t \in Tasks :
        (pc[t] = "returned" /\ done[t].fn = "upcall_del_stack") =>
            /\ stk_cur[t] = done[t].args.cur
            /\ stk_chain[t][stk_cur[t]].base = done[t].args.base

C9_Witness ==
    \E t \in Tasks :
        /\ pc[t] = "returned" /\ done[t].fn = "upcall_del_stack"
        /\ stk_cur[t] = 1 /\ Len(stk_chain[t]) = 2 /\ stk_chain[t][2].size = 3

(* C10: a step of an alias entry point is a step of the upcall it aliases, and
   the other way round: from the same state and arguments both lead to the
   same state, and so to the same return value. *)
C10_AliasesAgree ==
    [][ \A t \in Tasks :
          /\ \A i \in FailInputs :
                rust_upcall_fail(t, i[1], i[2], i[3]) <=> upcall_fail(t, i[1], i[2], i[3])
          /\ \A td \in TypeDescs, size \in Sizes :
                /\ rust_upcall_exchange_malloc(t, td, size)
                      <=> upcall_exchange_malloc(t, td, size)
                /\ rust_upcall_malloc(t, td, size) <=> upcall_malloc(t, td, size)
          /\ \A ptr \in Addrs :
                /\ rust_upcall_exchange_free(t, ptr) <=> upcall_exchange_free(t, ptr)
                /\ rust_upcall_free(t, ptr) <=> upcall_free(t, ptr)
      ]_vars

C10_Witness ==
    \E t \in Tasks :
        /\ pc[t] = "returned" /\ done[t].fn = "upcall_s_malloc"
        /\ done[t].ret \in LiveSet(t)

(* C11: the header upcall_malloc returns is non-null, has a tracked (non-negative)
   ref-count and the type descriptor passed in, and is in the live-allocation
   list of the calling task and of no other; once upcall_free of a header has
   returned, the header is no longer in that list. *)
C11_MallocTracked ==
    \A t \in Tasks :
        /\ (pc[t] = "returned" /\ done[t].fn = "upcall_s_malloc") =>
              /\ done[t].ret \in Addrs /\ done[t].ret # NULL
              /\ heap[done[t].ret].alloc = "boxed"
              /\ heap[done[t].ret].ref_count >= 0
              /\ heap[done[t].ret].td = done[t].args.td
              /\ done[t].ret \in LiveSet(t)
              /\ \A u \in Tasks \ {t} : done[t].ret \notin LiveSet(u)
        /\ (pc[t] = "returned" /\ done[t].fn = "upcall_s_free") =>
              done[t].args.ptr \notin LiveSet(t)

C11_Witness ==
    \E t, u \in Tasks :
        /\ pc[t] = "returned" /\ done[t].fn = "upcall_s_free"
        /\ LiveSet(t) # {}
        /\ pc[u] = "returned" /\ done[u].fn = "upcall_s_malloc"
        /\ done[u].args.td.align = 16 /\ done[u].ret \in LiveSet(u)

(* C12: upcall_rust_personality switches stacks exactly when it is entered on
   the guest stack; either way the native routine runs once, on the native
   stack, between the entry and the return of the wrapper, and the task is on
   its entry stack when the wrapper returns. *)
PersonalityPosition ==
    \A t \in Tasks :
        /\ (pc[t] \in {"handler", "ret"} /\ call[t].fn = "upcall_s_rust_personality") =>
              /\ stk[t] = "c"
              /\ call[t].switched <=> (call[t].site.stk = "rust")
        /\ (pc[t] = "returned" /\ done[t].fn = "upcall_s_rust_personality") =>
              /\ stk[t] = done[t].site.stk
              /\ done[t].switched <=> (done[t].site.stk = "rust")

C12_PersonalitySwitchesOnGuestOnly ==
    [][ /\ PersonalityPosition'
        /\ \A t \in Tasks :
              \* the wrapper returns only after the routine has run ...
              /\ ( /\ pc'[t] = "returned" /\ pc[t] # "returned"
                   /\ done'[t].fn = "upcall_s_rust_personality" )
                 => (pc[t] = "ret" /\ call[t].fn = "upcall_s_rust_personality")
              \* ... and the routine runs once per entry, on the native stack.
              /\ ( /\ pc'[t] = "ret" /\ pc[t] # "ret"
                   /\ call'[t].fn = "upcall_s_rust_personality" )
                 => ( /\ pc[t] = "handler" /\ stk[t] = "c"
                      /\ call[t].fn = "upcall_s_rust_personality"
                      /\ call[t].args.retval = 0 )
              /\ ( /\ pc[t] = "ret" /\ call[t].fn = "upcall_s_rust_personality" )
                 => pc'[t] \in {"ret", "returned"}
      ]_vars

C12_Witness ==
    \E t \in Tasks :
        /\ pc[t] = "returned" /\ done[t].fn = "upcall_s_rust_personality"
        /\ done[t].switched /\ done[t].site.stk = "rust" /\ stk[t] = "rust"
        /\ done[t].ret = 6

(* C13: in every reachable state a live header with ref-count >= 0 is in the
   live-allocation list of exactly one task, the one that allocated it, a live
   header with ref-count -1 is in no list, and the lists hold live boxes only;
   no step of upcall_exchange_malloc or upcall_exchange_free changes the
   live-allocation list of any task. *)
HeapOwnership ==
    /\ \A a \in Addrs :
          /\ (heap[a].alloc # "free" /\ heap[a].ref_count >= 0) =>
                \E t \in Tasks :
                    /\ a \in LiveSet(t)
                    /\ a \in origins[t] \/ (pc[t] = "untracked" /\ call[t].args.ptr = a)
                    /\ \A u \in Tasks \ {t} : a \notin LiveSet(u)
          /\ (heap[a].alloc # "free" /\ heap[a].ref_count = Untracked) =>
                \A u \in Tasks : a \notin LiveSet(u)
    /\ \A t \in Tasks : \A a \in LiveSet(t) :
          heap[a].alloc = "boxed" /\ heap[a].ref_count >= 0

ExchangeHandlers == {"upcall_s_exchange_malloc", "upcall_s_exchange_free"}

C13_HeapsDisjoint ==
    [][ /\ HeapOwnership'
        /\ \A t \in Tasks :
              ( \/ pc[t] # pc'[t] /\ call[t].fn \in ExchangeHandlers
                \/ pc[t] # pc'[t] /\ call'[t].fn \in ExchangeHandlers )
              => \A u \in Tasks : LiveList(u)' = LiveList(u)
      ]_vars

C13_Witness ==
    \E t, u \in Tasks :
        /\ t # u /\ LiveSet(t) # {}
        /\ pc[u] = "ret" /\ call[u].fn = "upcall_s_exchange_free"
        /\ heap[call[u].args.ptr].alloc = "free"

(* C14 (amended): with several tasks running upcalls on different threads, the
   record of every upcall in progress names the task of the thread that issued
   it, and every step of one task's upcall leaves every other task's
   live-allocation list and boxes, stack position, shims, segments, failing
   state and upcall in progress as they were.  What the tasks share is the
   allocator. *)
RecordTask ==
    \A t \in Tasks :
        (pc[t] \in {"handler", "ret"} /\ call[t].fn \in SwitchedHandlers) =>
            call[t].args.task = t

OfTask(u) ==
    <<LiveList(u), [a \in LiveSet(u) |-> heap[a]], origins[u], stk[u], frames[u],
      stk_chain[u], stk_cur[u], stk_limit[u], marks[u], mode[u], failure[u],
      pc[u], call[u], done[u]>>

ActsOnIssuingTask ==
    /\ RecordTask'
    /\ \E t \in Tasks : \A u \in Tasks \ {t} : OfTask(u)' = OfTask(u)

C14_UpcallsActOnIssuingTask == [][ActsOnIssuingTask]_vars

(* C14 (as stated): ... and the outcome of one task's upcall does not depend on
   the other tasks' upcalls: an allocate whose request fits a block is never
   refused while another task holds boxes it allocated. *)
OutcomeIndependent ==
    \A t \in Tasks :
        ( /\ pc[t] = "handler" /\ call[t].fn \in AllocHandlers
          /\ get_box_size(call[t].args.size, call[t].args.td.align) <= BlockBytes
          /\ failure[t].cause # "exhausted" /\ failure'[t].cause = "exhausted" )
        => \A u \in Tasks \ {t} : LiveSet(u) = {}

C14_OutcomeIndependentOfOthers == [][ActsOnIssuingTask /\ OutcomeIndependent]_vars

C14_Witness ==
    \E t, u \in Tasks :
        /\ t # u
        /\ pc[t] = "handler" /\ call[t].fn = "upcall_s_malloc"
        /\ pc[u] = "handler" /\ call[u].fn = "upcall_s_free"
        /\ LiveSet(t) # {} /\ LiveSet(u) # {}

(* C15: upcall_new_stack, upcall_del_stack and upcall_reset_stack_limit make no
   stack switch: the call never enters a handler through the stack-switch
   primitive, and the task is on the same stack, inside the same shims, before
   and after the call. *)
SegmentUpcalls == {"upcall_new_stack", "upcall_del_stack", "upcall_reset_stack_limit"}

C15_SegmentUpcallsNeverSwitch ==
    [][ \A t \in Tasks :
          ( /\ pc'[t] = "returned" /\ pc[t] # "returned"
            /\ done'[t].fn \in SegmentUpcalls )
          => ( /\ pc[t] = "run"
               /\ stk'[t] = stk[t] /\ frames'[t] = frames[t]
               /\ call[t] = NoCall /\ call'[t] = NoCall
               /\ ~done'[t].switched /\ done'[t].site.stk = stk'[t] )
      ]_vars

C15_Witness ==
    \E t \in Tasks :
        /\ pc[t] = "returned" /\ done[t].fn = "upcall_new_stack"
        /\ stk[t] = "rust" /\ done[t].site.stk = "rust"
        /\ Len(frames[t]) = 2 /\ stk_cur[t] = 2

(* C16: the record of upcall_fail holds the calling thread's task and the
   expression, file and line passed to the entry point, and when control
   leaves the handler the failure recorded on that task, and on no other,
   carries exactly these three. *)
C16_FailureCarriesOrigin ==
    [][ \A t \in Tasks :
          /\ ( /\ pc[t] = "run" /\ pc'[t] = "handler"
               /\ call'[t].fn = "upcall_s_fail" )
             => \E i \in FailInputs :
                   /\ upcall_fail(t, i[1], i[2], i[3])
                   /\ call'[t].args =
                         [task |-> t, expr |-> i[1], file |-> i[2], line |-> i[3]]
          /\ ( /\ pc[t] = "handler" /\ pc'[t] # "handler"
               /\ call[t].fn = "upcall_s_fail" )
             => ( /\ failure'[t] =
                         [cause |-> "fail", expr |-> call[t].args.expr,
                          file |-> call[t].args.file, line |-> call[t].args.line]
                  /\ <<failure'[t].expr, failure'[t].file, failure'[t].line>>
                         \in FailInputs
                  /\ \A u \in Tasks \ {t} : failure'[u] = failure[u] )
      ]_vars

C16_Witness ==
    \E t, u \in Tasks :
        /\ failure[t] = [cause |-> "fail", expr |-> "idx < len", file |-> "vec.rs",
                         line |-> 7]
        /\ mode[t] = "unwinding" /\ pc[t] = "run"
        /\ failure[u] = [cause |-> "fail", expr |-> "x > 0", file |-> "file.ext",
                         line |-> 42]

(* C17: upcall_malloc, upcall_exchange_malloc and upcall_rust_personality build
   their record with a zero return slot and return to the caller exactly what
   the handler wrote into the slot; for the two allocate upcalls that is the
   address of the block the handler took from the allocator. *)
C17_ReturnsHandlerValue ==
    [][ \A t \in Tasks :
          /\ ( /\ pc[t] = "run" /\ pc'[t] = "handler"
               /\ call'[t].fn \in ValueHandlers )
             => call'[t].args.retval = 0
          /\ ( /\ pc[t] = "handler" /\ pc'[t] = "ret"
               /\ call[t].fn \in AllocHandlers )
             => ( /\ call'[t].args.retval \in Addrs
                  /\ heap[call'[t].args.retval].alloc = "free"
                  /\ heap'[call'[t].args.retval].alloc # "free"
                  /\ \A a \in Addrs \ {call'[t].args.retval} :
                        heap'[a].alloc = heap[a].alloc )
          /\ ( /\ pc[t] = "ret" /\ pc'[t] = "returned"
               /\ call[t].fn \in ValueHandlers )
             => ( /\ done'[t].ret = call[t].args.retval
                  /\ done'[t].fn = call[t].fn )
      ]_vars

C17_Witness ==
    \E t \in Tasks :
        /\ pc[t] = "returned" /\ done[t].fn = "upcall_s_exchange_malloc"
        /\ done[t].ret = 2 /\ done[t].args.retval = 2
        /\ heap[1].alloc = "boxed"

(* C18: the tracker is told of every task-local allocate and free: the header
   upcall_s_malloc obtained is tracked when the handler returns, upcall_s_free
   untracks the pointer while the box is still the local heap's and releases
   it afterwards, so the tracker never holds a header that has been freed, and
   outside a free in progress it holds exactly the task's live boxes. *)
TrackerSound ==
    \A t \in Tasks :
        /\ origins[t] \subseteq LiveSet(t)
        /\ \A a \in origins[t] : heap[a].alloc = "boxed"
        /\ (LiveSet(t) \ origins[t]) \subseteq
              (IF pc[t] = "untracked" THEN {call[t].args.ptr} ELSE {})

C18_TrackerFollowsLocalHeap ==
    [][ /\ TrackerSound'
        /\ \A t \in Tasks :
              /\ ( /\ pc[t] = "handler" /\ pc'[t] = "ret"
                   /\ call[t].fn = "upcall_s_malloc" )
                 => ( /\ heap[call'[t].args.retval].alloc = "free"
                      /\ call'[t].args.retval \in origins'[t]
                      /\ call'[t].args.retval \notin origins[t] )
              /\ ( /\ pc[t] = "handler" /\ pc'[t] # "handler"
                   /\ call[t].fn = "upcall_s_free" )
                 => ( /\ pc'[t] = "untracked"
                      /\ call[t].args.ptr \in origins[t]
                      /\ call[t].args.ptr \notin origins'[t]
                      /\ heap' = heap )
              /\ ( pc[t] = "untracked" /\ pc'[t] # "untracked" )
                 => ( /\ pc'[t] = "ret"
                      /\ heap[call[t].args.ptr].alloc = "boxed"
                      /\ heap'[call[t].args.ptr].alloc = "free"
                      /\ origins' = origins )
      ]_vars

C18_Witness ==
    \E t \in Tasks :
        /\ pc[t] = "untracked" /\ call[t].fn = "upcall_s_free"
        /\ call[t].args.ptr \in LiveSet(t) /\ call[t].args.ptr \notin origins[t]
        /\ origins[t] # {}

(* C19 (as stated): the record of every upcall in progress, the one of
   rust_personality included, begins with the task that issued the upcall. *)
Fields(layout) == {layout[i] : i \in 1 .. Len(layout)}

InProgress(t) == pc[t] \in {"handler", "untracked", "ret"}

C19_EveryRecordBeginsWithTask ==
    \A t \in Tasks :
        InProgress(t) =>
            /\ Head(RecordType(call[t].fn)) = "task"
            /\ DOMAIN call[t].args = Fields(RecordType(call[t].fn))
            /\ call[t].args.task = t

(* C19 (amended): the records of fail, trace, malloc, free, exchange_malloc and
   exchange_free begin with the task that issued the upcall; the record of
   rust_personality begins with its return slot and has no task field, and
   its handler changes nothing of any task but that slot. *)
TaskRecords == SwitchedHandlers

RecordsBeginWithTask ==
    \A t \in Tasks :
        InProgress(t) =>
            /\ DOMAIN call[t].args = Fields(RecordType(call[t].fn))
            /\ IF call[t].fn \in TaskRecords
               THEN /\ Head(RecordType(call[t].fn)) = "task"
                    /\ call[t].args.task = t
               ELSE /\ call[t].fn = "upcall_s_rust_personality"
                    /\ Head(RecordType(call[t].fn)) = "retval"
                    /\ "task" \notin DOMAIN call[t].args

C19_TaskRecordsBeginWithTask ==
    [][ /\ RecordsBeginWithTask'
        /\ \A t \in Tasks :
              ( /\ pc[t] = "handler" /\ pc'[t] # "handler"
                /\ call[t].fn = "upcall_s_rust_personality" )
              => ( /\ pc'[t] = "ret"
                   /\ [call'[t] EXCEPT !.args.retval = 0] = call[t]
                   /\ <<aborted, mode, stk, frames, done, failure, heap, live_allocs,
                         origins, stk_chain, stk_cur, stk_limit, marks>>' =
                      <<aborted, mode, stk, frames, done, failure, heap, live_allocs,
                        origins, stk_chain, stk_cur, stk_limit, marks>> )
      ]_vars

C19_Witness ==
    \E t \in Tasks :
        /\ pc[t] = "ret" /\ call[t].fn = "upcall_s_rust_personality"
        /\ "task" \notin DOMAIN call[t].args
        /\ call[t].args.retval = 7 /\ call[t].switched

====
